---- MODULE Spec2Model ----
(***************************************************************************)
(* Holiday task-management backend (serverless/lambda):                    *)
(*   task/handler.py          GET/POST/PUT /tasks over the DynamoDB table  *)
(*   task/notifications.py    SES assignment mail, SNS status notification *)
(*   user/handler.py          GET/POST /users over the Cognito user pool   *)
(*   deadline/handler.py      hourly deadline scanner                      *)
(* The DynamoDB table, the Cognito user pool, SES and SNS are external;    *)
(* each call to them either answers or raises, chosen by the environment.  *)
(***************************************************************************)
EXTENDS Integers, Sequences, FiniteSets, TLC

\* ---------------------------------------------------------------- bounds
\* Number of invocations (responses) in one behaviour.
MaxRequests == 2
\* The clock runs over 0..MaxTime (hours).
MaxTime == 1

\* ------------------------------------------------------- python helpers
\* Python's None, as dict.get and next(..., None) return it.
None == "None"
\* `not v` for a str-or-None value.
Falsy(v) == v = None \/ v = ""
\* The elements of a list.
Range(seq) == { seq[i] : i \in DOMAIN seq }
\* dict.get(k)
Get(d, k) == IF k \in DOMAIN d THEN d[k] ELSE None
\* No response dict: the handler raised and the Lambda invocation failed.
Raised == 0

\* datetime.isoformat(): a fixed-width digit string (two digits of hours).
Iso(t) == <<t \div 10, t % 10>>
\* Python's str <= str: lexicographic order on the characters.
RECURSIVE StrLeq(_, _)
StrLeq(a, b) ==
    IF a = <<>> THEN TRUE
    ELSE IF b = <<>> THEN FALSE
    ELSE IF Head(a) < Head(b) THEN TRUE
    ELSE IF Head(a) > Head(b) THEN FALSE
    ELSE StrLeq(Tail(a), Tail(b))

\* ------------------------------------------------------------- domains
TaskIds == {"t1", "t2"}
Statuses == {"New", "Completed"}
\* Deadlines a client sends: hour 1 and hour 3, ISO formatted.
Deadlines == {Iso(1), Iso(3)}

\* The user pool at deployment.  The pool's interface returns a list of
\* matches for a filter; the code does not rely on `sub` being unique
\* (handler.py:118), so the pool holds one pair sharing a sub.
User(name, sub, attrs, groups) ==
    [username |-> name, sub |-> sub, attrs |-> attrs, groups |-> groups]
InitialDirectory ==
    { User("alice",  "s-alice",  [email |-> "alice@x"], {"admin"}),
      User("bob",    "s-bob",
           [email |-> "bob@x", preferred_username |-> "Bobby"], {"member"}),
      User("carol",  "s-carol",  [email |-> "carol@x"], {"member"}),
      User("nomail", "s-nomail", <<>>,                  {}),
      User("blank",  "s-blank",  [email |-> ""],        {}),
      User("twin1",  "s-twin",   [email |-> "t1@x"],    {}),
      User("twin2",  "s-twin",   [email |-> "t2@x"],    {}) }
\* The sub the pool gives the next created identity.
NewSub == "s-new"

\* Claims the gateway's authorizer attaches: the callers holding a token.
Claims(name, sub, groups) == [username |-> name, sub |-> sub, groups |-> groups]
Callers ==
    { Claims("alice", "s-alice", {"admin"}),
      Claims("bob",   "s-bob",   {"member"}),
      Claims("carol", "s-carol", {}) }

\* event['body']: a JSON text that json.loads parses to `data`, or null.
Json(data) == [parsed |-> TRUE, data |-> data]
NullBody == [parsed |-> FALSE, data |-> <<>>]

CreateBodies ==
    { Json([assignedTo |-> "s-bob", deadline |-> d, description |-> "x"]) :
          d \in Deadlines }
    \cup
    { Json([assignedTo |-> "s-carol", deadline |-> Iso(1), description |-> "x"]) }
    \cup
    { Json([assignedTo |-> a, deadline |-> Iso(1), description |-> "x"]) :
          a \in {"s-nomail", "s-blank", "s-twin", NewSub} }
    \cup
    { Json([deadline |-> Iso(1), description |-> "x"]),
      Json([assignedTo |-> "s-bob", description |-> "x"]),
      Json([assignedTo |-> "s-bob", deadline |-> Iso(1)]),
      Json([assignedTo |-> "s-bob", deadline |-> Iso(1), description |-> "x",
            status |-> "Completed"]),
      NullBody }

UpdateBodies ==
    { Json([taskId |-> t, status |-> s]) : t \in TaskIds, s \in Statuses }
    \cup
    { Json([taskId |-> "t1"]), Json([status |-> "New"]),
      Json([taskId |-> "t1", status |-> ""]),
      Json([taskId |-> "t1", status |-> "Completed",
            assignedTo |-> "s-carol", deadline |-> Iso(3)]),
      NullBody }

UserBodies ==
    { Json([username |-> "dave", email |-> "dave@x"]),
      Json([username |-> "bob", email |-> "bob2@x"]),
      Json([username |-> "dave"]),
      Json([email |-> "dave@x"]),
      Json([username |-> "", email |-> "dave@x"]),
      Json(<<>>),
      NullBody }

\* Outcome of one call to an external service.
Outcomes == {"ok", "raise"}

VARIABLES
    store,      \* the task table: taskId -> item, for the ids stored
    directory,  \* the user pool: a set of identities
    now,        \* the clock as last read by an invocation, in hours
    cfg,        \* environment of the deployment: which variables are set
    inflight,   \* update_task invocations between get_item and put_item
    resp        \* the last finished invocation: its request, what the
                \* services it called did, and its response

vars == <<store, directory, now, cfg, inflight, resp>>


\* ------------------------------------------------- responses and calls
\* DEFAULT_CORS_HEADERS: the names of the headers.
DEFAULT_CORS_HEADERS ==
    { "Access-Control-Allow-Origin", "Access-Control-Allow-Headers",
      "Access-Control-Allow-Methods" }

\* What one function call yields: the response's statusCode, the records
\* in its body, the external calls made (in order), the notification
\* helper calls made, and the items handed to put_item.
Result(code, out, calls, helpers, put) ==
    [code |-> code, out |-> out, calls |-> calls, helpers |-> helpers,
     put |-> put]

\* The items of the table (table.scan(), one page).
Items == { store[t] : t \in DOMAIN store }

\* table.put_item(Item=item): the item replaces whatever its key held.
PutItem(tbl, item) ==
    [t \in DOMAIN tbl \cup {item.taskId} |->
        IF t = item.taskId THEN item ELSE tbl[t]]

\* 'admin' in groups
IsAdminMutant(groups) == groups # {}
IsAdmin(groups) == "admin" \in groups

\* ------------------------------------------------ task/notifications.py
\* The same without the try/except: send_email's exception leaves it.
send_task_assignment_email_mutant(recipient_email, assignee_username, env) ==
    LET skip == ~cfg.ses \/ Falsy(recipient_email)
    IN  [calls   |-> IF skip THEN <<>> ELSE <<"send_email">>,
         raised  |-> ~skip /\ env.send_email = "raise",
         helpers |-> << [fn |-> "send_task_assignment_email",
                         to |-> recipient_email, old |-> None, new |-> None,
                         name |-> assignee_username,
                         result |-> ~skip /\ env.send_email = "ok"] >>]

\* send_task_assignment_email (lines 38-65): the calls it makes, its
\* arguments and return value, and whether an exception leaves it (the
\* try/except around send_email catches every one).
send_task_assignment_email(recipient_email, assignee_username, env) ==
    LET skip == ~cfg.ses \/ Falsy(recipient_email)
        sent == ~skip /\ env.send_email = "ok"
    IN  [calls   |-> IF skip THEN <<>> ELSE <<"send_email">>,
         raised  |-> FALSE,
         helpers |-> << [fn |-> "send_task_assignment_email",
                         to |-> recipient_email, old |-> None, new |-> None,
                         name |-> assignee_username, result |-> sent] >>]

\* admin_get_user(Username=sub)['UserAttributes'], preferred_username or
\* the sub itself; the sub also when the lookup raises.
AssigneeName(assigned_to_sub, env) ==
    LET found == { u \in directory :
                     u.sub = assigned_to_sub \/ u.username = assigned_to_sub }
    IN  IF env.admin_get_user = "raise" \/ Cardinality(found) # 1
        THEN assigned_to_sub
        ELSE LET u == CHOOSE v \in found : TRUE
             IN  IF "preferred_username" \in DOMAIN u.attrs
                 THEN u.attrs.preferred_username ELSE assigned_to_sub

\* send_status_update_notification (lines 67-99): the enrichment lookup is
\* tried only with a user pool configured; its failure and publish's are
\* caught inside.
send_status_update_notification(old_status, new_status, assigned_to_sub, env) ==
    LET skip   == ~cfg.sns
        enrich == ~Falsy(assigned_to_sub) /\ cfg.pool
        sent   == ~skip /\ env.publish = "ok"
    IN  [calls   |-> IF skip THEN <<>>
                     ELSE (IF enrich THEN <<"admin_get_user">> ELSE <<>>)
                          \o <<"publish">>,
         raised  |-> FALSE,
         helpers |-> << [fn |-> "send_status_update_notification",
                         to |-> assigned_to_sub, old |-> old_status,
                         new |-> new_status,
                         name |-> IF enrich /\ ~skip
                                  THEN AssigneeName(assigned_to_sub, env)
                                  ELSE assigned_to_sub,
                         result |-> sent] >>]

\* ------------------------------------------------------ task/handler.py
\* table.scan(FilterExpression='assignedTo = :user_sub')
ScanFilterMutant(user_sub) == Items
ScanFilter(user_sub) == { it \in Items : it.assignedTo = user_sub }

list_tasks(requesting_user_sub, groups, env) ==
    IF env.scan = "raise" THEN Result(Raised, {}, <<"scan">>, <<>>, {})
    ELSE Result(200,
                IF IsAdmin(groups) THEN Items ELSE ScanFilter(requesting_user_sub),
                <<"scan">>, <<>>, {})

\* cognito_client.list_users(Filter='sub = "<sub>"')['Users']
ListUsersBySub(sub) == { u \in directory : u.sub = sub }

\* response['Users'] and len(response['Users']) == 1
ExactlyOneMutant(users) == users # {}
ExactlyOne(users) == Cardinality(users) = 1

\* next((attr['Value'] ... if attr['Name'] == 'email'), None)
EmailOf(user_profile) == Get(user_profile.attrs, "email")

\* not user_email
NoEmailMutant(user_email) == user_email = None
NoEmail(user_email) == Falsy(user_email)

\* The item create_task builds (lines 140-149); data['deadline'] and
\* data['description'] raise KeyError when the key is missing.
NewItemMutant(data, assigned_to_sub, created_by_username, id, t) ==
    [taskId |-> id, assignedTo |-> assigned_to_sub,
     status |-> IF "status" \in DOMAIN data THEN data.status ELSE "New",
     deadline |-> data.deadline, description |-> data.description,
     createdBy |-> created_by_username,
     createdAt |-> Iso(t), updatedAt |-> Iso(t)]
NewItem(data, assigned_to_sub, created_by_username, id, t) ==
    [taskId |-> id, assignedTo |-> assigned_to_sub, status |-> "New",
     deadline |-> data.deadline, description |-> data.description,
     createdBy |-> created_by_username,
     createdAt |-> Iso(t), updatedAt |-> Iso(t)]

create_task(data, created_by_username, groups, id, t, env) ==
    LET assigned_to_sub == Get(data, "assignedTo")
        users == ListUsersBySub(assigned_to_sub)
        user_profile == CHOOSE u \in users : TRUE
        user_email == EmailOf(user_profile)
        lookup == <<"list_users">>
        item == NewItem(data, assigned_to_sub, created_by_username, id, t)
        mail == send_task_assignment_email(user_email, user_profile.username, env)
    IN  IF ~IsAdmin(groups) THEN Result(403, {}, <<>>, <<>>, {})
        ELSE IF Falsy(assigned_to_sub) THEN Result(400, {}, <<>>, <<>>, {})
        ELSE IF ~cfg.pool \/ env.list_users = "raise"
            THEN Result(500, {}, lookup, <<>>, {})
        ELSE IF ~ExactlyOne(users) THEN Result(404, {}, lookup, <<>>, {})
        ELSE IF NoEmail(user_email) THEN Result(400, {}, lookup, <<>>, {})
        ELSE IF ~({"deadline", "description"} \subseteq DOMAIN data)
            THEN Result(Raised, {}, lookup, <<>>, {})
        ELSE IF env.put_item = "raise"
            THEN Result(500, {}, lookup \o <<"put_item">>, <<>>, {})
        ELSE Result(IF mail.raised THEN Raised ELSE 201, {item},
                    lookup \o <<"put_item">> \o mail.calls,
                    mail.helpers, {item})

\* is_admin or the task's assignedTo is the caller's sub (lines 200-203).
AuthorizedMutant(groups, updated_by_sub, current_task) == TRUE
Authorized(groups, updated_by_sub, current_task) ==
    IsAdmin(groups) \/ current_task.assignedTo = updated_by_sub

\* update_task up to the authorization check (lines 176-207); code 100
\* stands for "no answer yet: go on to the rewrite with the item read".
update_task_read(data, updated_by_sub, groups, env) ==
    LET task_id == Get(data, "taskId")
        new_status == Get(data, "status")
        get == <<"get_item">>
    IN  IF Falsy(task_id) \/ Falsy(new_status) THEN Result(400, {}, <<>>, <<>>, {})
        ELSE IF env.get_item = "raise" THEN Result(500, {}, get, <<>>, {})
        ELSE IF task_id \notin DOMAIN store THEN Result(404, {}, get, <<>>, {})
        ELSE IF ~Authorized(groups, updated_by_sub, store[task_id])
            THEN Result(403, {}, get, <<>>, {})
        ELSE Result(100, {store[task_id]}, get, <<>>, {})

\* new_status != old_status
StatusChangedMutant(new_status, old_status) == TRUE
StatusChanged(new_status, old_status) == new_status # old_status

\* The same with a version check on the write (a conditional put that
\* refuses an item another writer has replaced since it was read).
update_task_write_versioned(data, current_task, calls, t, env) ==
    LET old_status == current_task.status
        new_status == data.status
        updated == [current_task EXCEPT !.status = new_status,
                                        !.updatedAt = Iso(t)]
        put == calls \o <<"put_item">>
        note == send_status_update_notification(old_status, new_status,
                                                current_task.assignedTo, env)
    IN  IF env.put_item = "raise" \/ store[current_task.taskId] # current_task
            THEN Result(500, {}, put, <<>>, {})
        ELSE IF StatusChanged(new_status, old_status)
            THEN Result(200, {updated}, put \o note.calls, note.helpers, {updated})
        ELSE Result(200, {updated}, put, <<>>, {updated})

\* update_task from the rewrite on (lines 209-234), on the item read.
update_task_write(data, current_task, calls, t, env) ==
    LET old_status == current_task.status
        new_status == data.status
        updated == [current_task EXCEPT !.status = new_status,
                                        !.updatedAt = Iso(t)]
        put == calls \o <<"put_item">>
        note == send_status_update_notification(old_status, new_status,
                                                current_task.assignedTo, env)
    IN  IF env.put_item = "raise" THEN Result(500, {}, put, <<>>, {})
        ELSE IF StatusChanged(new_status, old_status)
            THEN Result(IF note.raised THEN Raised ELSE 200, {updated},
                        put \o note.calls, note.helpers, {updated})
        ELSE Result(200, {updated}, put, <<>>, {updated})


\* ------------------------------------------------------ user/handler.py
\* The user handler's own header on every response but the preflight's.
USER_HEADERS == { "Access-Control-Allow-Origin" }

\* admin_create_user: the identity as the pool stores it.
CreatedUser(username, email) ==
    User(username, NewSub, [email |-> email, email_verified |-> "true"], {})

\* admin_add_user_to_group(GroupName='member')
AddToGroup(dir, username) ==
    { IF u.username = username
      THEN [u EXCEPT !.groups = @ \cup {"member"}] ELSE u : u \in dir }

\* The array the list branch returns (lines 114-131).
UserViews ==
    { [username |-> u.username, attributes |-> u.attrs, groups |-> u.groups] :
        u \in directory }

\* The POST branch (lines 52-107).  `dir` is the pool after the calls.
user_create(body, env) ==
    LET data == body.data
        username == Get(data, "username")
        email == Get(data, "email")
        exists == \E u \in directory : u.username = username
        made == directory \cup {CreatedUser(username, email)}
        Ans(code, calls, dir) ==
            [code |-> code, out |-> {}, calls |-> calls, helpers |-> <<>>,
             dir |-> dir]
    IN  IF ~body.parsed THEN Ans(500, <<>>, directory)
        ELSE IF Falsy(username) \/ Falsy(email) THEN Ans(400, <<>>, directory)
        ELSE IF exists \/ env.admin_create_user = "raise"
            THEN Ans(500, <<"admin_create_user">>, directory)
        ELSE IF env.admin_add_user_to_group = "raise"
            THEN Ans(500, <<"admin_create_user",
                            "admin_add_user_to_group">>, made)
        ELSE Ans(201, <<"admin_create_user",
                        "admin_add_user_to_group">>,
                 AddToGroup(made, username))

\* The list branch (lines 109-148): one group lookup per identity.
user_list(env) ==
    LET Ans(code, out, calls) ==
            [code |-> code, out |-> out, calls |-> calls, helpers |-> <<>>,
             dir |-> directory]
        lookups == [i \in 1..Cardinality(directory) |->
                        "admin_list_groups_for_user"]
    IN  IF env.list_users = "raise" THEN Ans(500, {}, <<"list_users">>)
        ELSE IF env.admin_list_groups_for_user = "raise"
            THEN Ans(500, {}, <<"list_users",
                                "admin_list_groups_for_user">>)
        ELSE Ans(200, UserViews, <<"list_users">> \o lookups)

\* handler (lines 31-148) past the preflight.
user_handler(http_method, groups, body, env) ==
    IF ~IsAdmin(groups)
    THEN [code |-> 403, out |-> {}, calls |-> <<>>, helpers |-> <<>>,
          dir |-> directory]
    ELSE IF http_method = "POST" THEN user_create(body, env)
    ELSE user_list(env)

\* -------------------------------------------------- deadline/handler.py
\* datetime.now(datetime.UTC) (line 18): `datetime` is the class imported
\* by `from datetime import datetime`; UTC is an attribute of the module,
\* not of the class, so the expression raises AttributeError.
DatetimeClassHasUTC == FALSE

\* task['status'] != 'Completed' and task['deadline'] <= soon
IsDue(task, soon) == task.status # "Completed" /\ StrLeq(task.deadline, soon)

\* handler (lines 17-33): one sns.publish per due item.
deadline_handler(t, env) ==
    LET soon == Iso(t + 1)
        alerts == { task \in Items : IsDue(task, soon) }
        publishes == [i \in 1..Cardinality(alerts) |-> "publish"]
    IN  IF ~DatetimeClassHasUTC THEN Result(Raised, {}, <<>>, <<>>, {})
        ELSE IF env.scan = "raise"
            THEN Result(Raised, {}, <<"scan">>, <<>>, {})
        ELSE IF alerts # {} /\ env.publish = "raise"
            THEN Result(Raised, {}, <<"scan", "publish">>, <<>>, {})
        ELSE Result(200, alerts, <<"scan">> \o publishes, <<>>, {})


\* ------------------------------------------------------------- actions
\* A preflight carries no token.
NoClaims == Claims("", "", {})
\* Concurrent update_task invocations the platform runs.
Slots == {1, 2}

\* What the external calls of one invocation do.  A call after one that
\* raised and was not swallowed is never made, so its outcome is left "ok".
ListEnv == [scan : Outcomes]
CreateEnv ==
    { e \in [list_users : Outcomes, put_item : Outcomes, send_email : Outcomes] :
        /\ e.list_users = "raise" => e.put_item = "ok"
        /\ e.list_users = "raise" \/ e.put_item = "raise" => e.send_email = "ok" }
ReadEnv == [get_item : Outcomes]
WriteEnv ==
    { e \in [put_item : Outcomes, admin_get_user : Outcomes, publish : Outcomes] :
        e.put_item = "raise" => e.admin_get_user = "ok" /\ e.publish = "ok" }
UserCreateEnv ==
    { e \in [admin_create_user : Outcomes, admin_add_user_to_group : Outcomes] :
        e.admin_create_user = "raise" => e.admin_add_user_to_group = "ok" }
UserListEnv ==
    { e \in [list_users : Outcomes, admin_list_groups_for_user : Outcomes] :
        e.list_users = "raise" => e.admin_list_groups_for_user = "ok" }
ScanEnv ==
    { e \in [scan : Outcomes, publish : Outcomes] :
        e.scan = "raise" => e.publish = "ok" }

\* Deployments: every variable set (holiday_stack.py:82-87), or one unset.
Configs ==
    { c \in [ses : BOOLEAN, sns : BOOLEAN, pool : BOOLEAN] :
        Cardinality({ k \in {"ses", "sns", "pool"} : ~c[k] }) <= 1 }

NoResponse ==
    [n |-> 0, handler |-> "none", method |-> "", claims |-> NoClaims,
     body |-> NullBody, env |-> <<>>, code |-> Raised, out |-> {}, calls |-> <<>>,
     helpers |-> <<>>, headers |-> {}]

\* The table at the start: empty, or holding the item an earlier
\* POST /tasks by alice for bob wrote at hour 0.
InitialStores ==
    { <<>>,
      PutItem(<<>>, NewItem([deadline |-> Iso(1), description |-> "x"],
                            "s-bob", "alice", "t1", 0)) }

\* Without a user pool configured no create gets past its lookup, so such
\* a deployment's table is empty.
Init ==
    /\ cfg \in Configs
    /\ store \in IF cfg.pool THEN InitialStores ELSE {<<>>}
    /\ directory = InitialDirectory
    /\ now = 0
    /\ inflight = <<>>
    /\ resp = NoResponse

\* An invocation may start while the behaviour has invocations left.
CanStart == resp.n + Cardinality(DOMAIN inflight) < MaxRequests

\* The invocation ends: its request and what it returned.
Answer(handler, method, claims, body, env, r, headers) ==
    resp' = [n |-> resp.n + 1, handler |-> handler, method |-> method,
             claims |-> claims, body |-> body, env |-> env,
             code |-> r.code, out |-> r.out,
             calls |-> r.calls, helpers |-> r.helpers, headers |-> headers]

\* task handler, lines 62-63: the CORS headers are merged into whatever
\* the branch returned; an invocation that raised returns nothing.
TaskHeaders(r) == IF r.code = Raised THEN {} ELSE DEFAULT_CORS_HEADERS

\* json.loads(event['body']) (lines 53, 55) raises on a null body.
BodyRaised == Result(Raised, {}, <<>>, <<>>, {})

\* An outcome is chosen only for a call the invocation makes.
EnvUsed(env, calls) ==
    \A k \in DOMAIN env :
        env[k] = "raise" =>
            k \in Range(calls)

\* OPTIONS /tasks (lines 38-43)
TaskPreflight(claims) ==
    /\ CanStart
    /\ Answer("task", "OPTIONS", claims, NullBody, <<>>,
              Result(200, {}, <<>>, <<>>, {}), DEFAULT_CORS_HEADERS)
    /\ UNCHANGED <<store, directory, now, cfg, inflight>>

\* GET /tasks
TaskList(claims, env) ==
    /\ CanStart
    /\ LET r == list_tasks(claims.sub, claims.groups, env)
       IN  /\ EnvUsed(env, r.calls)
           /\ Answer("task", "GET", claims, NullBody, env, r, TaskHeaders(r))
    /\ UNCHANGED <<store, directory, now, cfg, inflight>>

\* POST /tasks; `id` is the uuid4 drawn at line 141 and `t` the hour
\* datetime.now reads at lines 147-148, when the invocation gets there.
TaskCreate(claims, body, env) ==
    /\ CanStart
    /\ \E id \in (TaskIds \ DOMAIN store) \cup {"none"}, t \in now..MaxTime :
         LET r == IF body.parsed
                  THEN create_task(body.data, claims.username, claims.groups, id, t, env)
                  ELSE BodyRaised
         IN  /\ IF "put_item" \in Range(r.calls)
                THEN id # "none" ELSE id = "none" /\ t = now
             /\ EnvUsed(env, r.calls)
             /\ Answer("task", "POST", claims, body, env, r, TaskHeaders(r))
             /\ store' = IF r.put = {} THEN store
                         ELSE PutItem(store, CHOOSE it \in r.put : TRUE)
             /\ now' = t
    /\ UNCHANGED <<directory, cfg, inflight>>

\* PUT /tasks up to get_item's answer and the authorization check.
TaskUpdateRead(claims, body, env) ==
    /\ CanStart
    /\ LET r == IF body.parsed
                THEN update_task_read(body.data, claims.sub, claims.groups, env)
                ELSE BodyRaised
           free == Slots \ DOMAIN inflight
           slot == CHOOSE s \in free : \A s2 \in free : s <= s2
           inv == [claims |-> claims, body |-> body,
                   current_task |-> CHOOSE it \in r.out : TRUE,
                   calls |-> r.calls]
       IN  /\ EnvUsed(env, r.calls)
           /\ r.code = 100 => free # {}
           /\ inflight' = IF r.code = 100
                           THEN [s \in DOMAIN inflight \cup {slot} |->
                                    IF s = slot THEN inv ELSE inflight[s]]
                           ELSE inflight
           /\ IF r.code = 100 THEN UNCHANGED resp
              ELSE Answer("task", "PUT", claims, body, env, r, TaskHeaders(r))
    /\ UNCHANGED <<store, directory, now, cfg>>

\* PUT /tasks from put_item on: the rewrite, the notification, the
\* answer; `t` is the hour datetime.now reads at line 211.
TaskUpdateWrite(slot, env) ==
    /\ slot \in DOMAIN inflight
    /\ \E t \in now..MaxTime :
         LET inv == inflight[slot]
             r == update_task_write(inv.body.data, inv.current_task, inv.calls, t, env)
         IN  /\ EnvUsed(env, r.calls)
             /\ Answer("task", "PUT", inv.claims, inv.body, env, r, TaskHeaders(r))
             /\ store' = IF r.put = {} THEN store
                         ELSE PutItem(store, CHOOSE it \in r.put : TRUE)
             /\ now' = t
    /\ inflight' = [s \in DOMAIN inflight \ {slot} |-> inflight[s]]
    /\ UNCHANGED <<directory, cfg>>

\* Any other method (lines 56-60)
TaskOther(claims) ==
    /\ CanStart
    /\ Answer("task", "DELETE", claims, NullBody, <<>>,
              Result(405, {}, <<>>, <<>>, {}), DEFAULT_CORS_HEADERS)
    /\ UNCHANGED <<store, directory, now, cfg, inflight>>

\* OPTIONS /users (lines 33-38)
UserPreflight(claims) ==
    /\ CanStart
    /\ Answer("user", "OPTIONS", claims, NullBody, <<>>,
              Result(200, {}, <<>>, <<>>, {}), DEFAULT_CORS_HEADERS)
    /\ UNCHANGED <<store, directory, now, cfg, inflight>>

\* GET and POST /users
UserRequest(method, claims, body, env) ==
    /\ CanStart
    /\ LET r == user_handler(method, claims.groups, body, env)
       IN  /\ EnvUsed(env, r.calls)
           /\ Answer("user", method, claims, body, env, r, USER_HEADERS)
           /\ directory' = r.dir
    /\ UNCHANGED <<store, now, cfg, inflight>>

\* The hourly rule fires the scanner; `t` is the hour line 18 would read.
DeadlineScan(env) ==
    /\ CanStart
    /\ \E t \in now..MaxTime :
         LET r == deadline_handler(t, env)
         IN  /\ EnvUsed(env, r.calls)
             /\ Answer("deadline", "", NoClaims, NullBody, env, r, {})
             /\ now' = t
    /\ UNCHANGED <<store, directory, cfg, inflight>>

Next ==
    \/ \E c \in Callers \cup {NoClaims} : TaskPreflight(c)
    \/ \E c \in Callers, env \in ListEnv : TaskList(c, env)
    \/ \E c \in Callers, b \in CreateBodies, env \in CreateEnv : TaskCreate(c, b, env)
    \/ \E c \in Callers, b \in UpdateBodies, env \in ReadEnv : TaskUpdateRead(c, b, env)
    \/ \E s \in Slots, env \in WriteEnv : TaskUpdateWrite(s, env)
    \/ \E c \in Callers : TaskOther(c)
    \/ \E c \in Callers \cup {NoClaims} : UserPreflight(c)
    \/ \E c \in Callers, env \in UserListEnv : UserRequest("GET", c, NullBody, env)
    \/ \E c \in Callers, b \in UserBodies, env \in UserCreateEnv :
           UserRequest("POST", c, b, env)
    \/ \E env \in ScanEnv : DeadlineScan(env)

Spec == Init /\ [][Next]_vars


\* -------------------------------------------------------------- claims
\* The last finished invocation was `method` on `handler`.
Was(handler, method) == resp.handler = handler /\ resp.method = method
\* The step ends an invocation of `method` on `handler`.
Ends(handler, method) ==
    resp'.n # resp.n /\ resp'.handler = handler /\ resp'.method = method

\* C1: GET /tasks answers an admin with every stored record, and any other
\* caller with exactly the stored records whose assignedTo is the caller's
\* sub, never with a record assigned to somebody else.
C1_ListVisibility ==
    Was("task", "GET") /\ resp.code = 200 =>
        IF "admin" \in resp.claims.groups
        THEN resp.out = { store[t] : t \in DOMAIN store }
        ELSE /\ \A it \in resp.out : it.assignedTo = resp.claims.sub
             /\ \A t \in DOMAIN store :
                    store[t].assignedTo = resp.claims.sub <=> store[t] \in resp.out

\* A non-admin listed a table that holds a record of theirs and a record
\* assigned to somebody else.
C1_Witness ==
    /\ Was("task", "GET") /\ resp.code = 200
    /\ "admin" \notin resp.claims.groups
    /\ \E t \in DOMAIN store : store[t].assignedTo = resp.claims.sub
    /\ \E t \in DOMAIN store : store[t].assignedTo # resp.claims.sub

\* C2: PUT /tasks on a stored task by a caller who is neither admin nor the
\* task's assignee is answered 403 (500 when get_item itself raised), leaves
\* the table as it was and triggers no notification; and a step changes a
\* stored record's status only when it ends a PUT by an admin or by the
\* record's assignee.
C2_ForbiddenUpdate ==
    [][ /\ ( /\ Ends("task", "PUT")
             /\ resp'.body.parsed
             /\ ~Falsy(Get(resp'.body.data, "status"))
             /\ Get(resp'.body.data, "taskId") \in DOMAIN store
             /\ "admin" \notin resp'.claims.groups
             /\ store[resp'.body.data.taskId].assignedTo # resp'.claims.sub )
           => /\ IF Get(resp'.env, "get_item") = "raise"
                 THEN resp'.code = 500 ELSE resp'.code = 403
              /\ store' = store
              /\ resp'.helpers = <<>>
              /\ Range(resp'.calls) = {"get_item"}
        /\ \A t \in DOMAIN store :
             store'[t].status # store[t].status
             => /\ Ends("task", "PUT")
                /\ resp'.body.data.taskId = t
                /\ \/ "admin" \in resp'.claims.groups
                   \/ resp'.claims.sub = store[t].assignedTo
      ]_vars

\* A stranger's update of a stored task was refused.
C2_Witness ==
    /\ Was("task", "PUT") /\ resp.code = 403
    /\ resp.body.data.taskId \in DOMAIN store
    /\ store[resp.body.data.taskId].assignedTo # resp.claims.sub

\* C3: POST /tasks by a caller without the admin group is answered 403
\* whatever its body, and makes no directory lookup, no write and no mail.
C3_CreateAdminOnly ==
    Was("task", "POST") /\ "admin" \notin resp.claims.groups =>
        resp.code = 403 /\ resp.calls = <<>> /\ resp.helpers = <<>>


\* The identities the directory holds under the sub a create names.
Matches(body) == { u \in directory : u.sub = Get(body.data, "assignedTo") }
\* The request was a POST /tasks by an admin whose body names an assignee.
AdminCreate(r) ==
    /\ r.handler = "task" /\ r.method = "POST"
    /\ "admin" \in r.claims.groups
    /\ r.body.parsed
    /\ ~Falsy(Get(r.body.data, "assignedTo"))

\* C4: POST /tasks by an admin naming an assignedTo that matches no or
\* several directory entries is answered 404 (500 when the lookup itself
\* raised) and writes nothing; a step adds a record only when its assignedTo
\* matches exactly one entry of the directory at that moment.
C4_UnknownAssignee ==
    [][ /\ ( /\ resp'.n # resp.n
             /\ AdminCreate(resp')
             /\ Cardinality(Matches(resp'.body)) # 1 )
           => /\ IF cfg.pool /\ resp'.env.list_users = "ok"
                 THEN resp'.code = 404 ELSE resp'.code = 500
              /\ store' = store
              /\ resp'.calls = <<"list_users">>
              /\ resp'.helpers = <<>>
        /\ \A t \in DOMAIN store' \ DOMAIN store :
              /\ resp'.n # resp.n /\ AdminCreate(resp')
              /\ store'[t].assignedTo = resp'.body.data.assignedTo
              /\ Cardinality(Matches(resp'.body)) = 1
      ]_vars

\* A create naming a sub two identities share was answered 404.
C4_Witness ==
    /\ AdminCreate(resp) /\ resp.code = 404
    /\ Cardinality(Matches(resp.body)) >= 2

\* C5: POST /tasks by an admin whose assignedTo matches exactly one entry
\* that has no email attribute, or an empty one, is answered 400 (500 when
\* the lookup itself raised), writes nothing and sends no mail.
C5_AssigneeWithoutEmail ==
    [][ ( /\ resp'.n # resp.n
          /\ AdminCreate(resp')
          /\ \E u \in Matches(resp'.body) :
                /\ Matches(resp'.body) = {u}
                /\ ("email" \in DOMAIN u.attrs => u.attrs.email = "") )
        => /\ IF cfg.pool /\ resp'.env.list_users = "ok"
              THEN resp'.code = 400 ELSE resp'.code = 500
           /\ store' = store
           /\ resp'.calls = <<"list_users">>
           /\ resp'.helpers = <<>>
      ]_vars

\* A create for the identity whose email attribute is empty was answered 400.
C5_Witness ==
    /\ AdminCreate(resp) /\ resp.code = 400
    /\ \E u \in Matches(resp.body) : "email" \in DOMAIN u.attrs /\ u.attrs.email = ""

\* The step ends the update_task invocation of `slot` with a 200.
Rewrites(slot) ==
    /\ slot \in DOMAIN inflight /\ slot \notin DOMAIN inflight'
    /\ Ends("task", "PUT") /\ resp'.code = 200

\* C6: an authorized update whose rewrite lands on the record as it was read
\* (no other write in between) calls the status notification exactly when
\* the requested status differs from the record's status before the rewrite,
\* with that old and new status; the rewrite changes status and updatedAt
\* only, and refreshes updatedAt also when the status is the same.
C6_NotifyOnChange ==
    [][ \A slot \in Slots :
          /\ Rewrites(slot)
          /\ store[inflight[slot].current_task.taskId] = inflight[slot].current_task
          => LET id == resp'.body.data.taskId
                 new == resp'.body.data.status
                 old == store[id].status
             IN  /\ store' = [store EXCEPT ![id] =
                                 [@ EXCEPT !.status = new, !.updatedAt = Iso(now')]]
                 /\ IF new # old
                    THEN /\ Len(resp'.helpers) = 1
                         /\ resp'.helpers[1].fn = "send_status_update_notification"
                         /\ resp'.helpers[1].old = old
                         /\ resp'.helpers[1].new = new
                    ELSE /\ resp'.helpers = <<>>
                         /\ "publish" \notin Range(resp'.calls)
      ]_vars

\* An update to the status the record already had rewrote it at a later
\* hour and notified nobody.
C6_Witness ==
    /\ Was("task", "PUT") /\ resp.code = 200 /\ resp.helpers = <<>>
    /\ \E it \in resp.out : it.updatedAt # it.createdAt /\ it.status = "New"


\* The stored records that are not Completed and whose deadline is at most
\* one hour after hour `t`.
DueAt(t) ==
    { store[k] : k \in { i \in DOMAIN store :
                            /\ store[i].status # "Completed"
                            /\ StrLeq(store[i].deadline, Iso(t + 1)) } }

\* C7: a scanner invocation (the table and the topic answering) publishes
\* one alert for every stored record that is not Completed and is due
\* within the hour, none for any other record, and returns exactly those
\* in its summary.
C7_ScannerAlertsDue ==
    Was("deadline", "") /\ resp.env.scan = "ok" /\ resp.env.publish = "ok" =>
        /\ \A it \in DueAt(now) : it \in resp.out
        /\ resp.out \subseteq DueAt(now)
        /\ Cardinality({ i \in DOMAIN resp.calls : resp.calls[i] = "publish" })
              = Cardinality(DueAt(now))

\* The request was a POST /users by an admin.
AdminUserCreate(r) ==
    r.handler = "user" /\ r.method = "POST" /\ "admin" \in r.claims.groups

\* C8: POST /users by an admin with a body lacking username or email is
\* answered 400 without a directory call; a 201 means one creation call and
\* one group call were made, and the directory holds the identity, with the
\* email given, in the member group.
C8_UserCreate ==
    AdminUserCreate(resp) =>
        /\ ( \/ Falsy(Get(resp.body.data, "username"))
             \/ Falsy(Get(resp.body.data, "email")) )
           => resp.code = 400 /\ resp.calls = <<>>
        /\ resp.code = 201
           => /\ resp.calls = <<"admin_create_user", "admin_add_user_to_group">>
              /\ Cardinality({ u \in directory :
                                 u.username = resp.body.data.username }) = 1
              /\ \A u \in directory :
                    u.username = resp.body.data.username
                    => "member" \in u.groups /\ u.attrs.email = resp.body.data.email

\* C9: a GET or POST /users by a caller without the admin group is answered
\* 403 with no directory call made, no identity returned and the directory
\* left as it was.
C9_UsersAdminOnly ==
    [][ ( /\ resp'.n # resp.n /\ resp'.handler = "user"
          /\ resp'.method # "OPTIONS"
          /\ "admin" \notin resp'.claims.groups )
        => /\ resp'.code = 403
           /\ resp'.calls = <<>>
           /\ resp'.out = {}
           /\ directory' = directory
      ]_vars

\* A member's well-formed create-user request was refused.
C9_Witness ==
    /\ Was("user", "POST") /\ resp.code = 403
    /\ resp.claims.groups = {"member"}
    /\ resp.body.parsed /\ DOMAIN resp.body.data = {"username", "email"}

\* C10: when put_item succeeds, POST /tasks is answered 201 and PUT /tasks
\* 200, and the table gets the same record, whether the notification
\* channel is unconfigured, answers or raises (and whether the enrichment
\* lookup answers or raises).
C10_NotificationIsolated ==
    [][ ( /\ resp'.n # resp.n /\ resp'.handler = "task"
          /\ "put_item" \in Range(resp'.calls)
          /\ resp'.env.put_item = "ok" )
        => /\ resp'.code = IF resp'.method = "POST" THEN 201 ELSE 200
           /\ \E id \in DOMAIN store' :
                /\ resp'.out = {store'[id]}
                /\ resp'.method = "PUT" => id = resp'.body.data.taskId
                /\ resp'.method = "POST" => id \notin DOMAIN store
                /\ \A k \in DOMAIN store' \ {id} : k \in DOMAIN store /\ store'[k] = store[k]
                /\ store'[id].status = IF resp'.method = "POST" THEN "New"
                                       ELSE resp'.body.data.status
                /\ store'[id].updatedAt = Iso(now')
                /\ IF resp'.method = "POST"
                   THEN /\ store'[id].assignedTo = resp'.body.data.assignedTo
                        /\ store'[id].deadline = resp'.body.data.deadline
                        /\ store'[id].description = resp'.body.data.description
                        /\ store'[id].createdBy = resp'.claims.username
                        /\ store'[id].createdAt = Iso(now')
                   ELSE \A f \in DOMAIN store[id] \ {"status", "updatedAt"} :
                            store'[id][f] = store[id][f]
      ]_vars

\* A create was answered 201 although send_email raised.
C10_Witness ==
    /\ Was("task", "POST") /\ resp.code = 201
    /\ "send_email" \in Range(resp.calls) /\ resp.env.send_email = "raise"
    /\ resp.out \subseteq { store[t] : t \in DOMAIN store }

\* The step is the rewrite of the update_task invocation of `slot`.
Writes(slot) ==
    /\ slot \in DOMAIN inflight /\ slot \notin DOMAIN inflight'
    /\ Ends("task", "PUT")

\* C11: updates of one task are not serialized: the rewrite of an update
\* that passed its authorization is answered 200 whenever put_item answers
\* (500 only when put_item raises), whatever another update wrote to the
\* record since it was read, and leaves the table holding the whole record
\* as this update read it, with this update's status and updatedAt.
C11_LastWriteWins ==
    [][ \A slot \in Slots :
          Writes(slot)
          => LET inv == inflight[slot]
                 id == inv.current_task.taskId
             IN  /\ resp'.code = IF resp'.env.put_item = "ok" THEN 200 ELSE 500
                 /\ resp'.code = 200
                    => store' = [store EXCEPT ![id] =
                                   [inv.current_task EXCEPT
                                       !.status = inv.body.data.status,
                                       !.updatedAt = Iso(now')]]
                 /\ resp'.code = 500 => store' = store
      ]_vars

\* Two updates read the same record; one has rewritten it with another
\* status and was answered 200, the other is still to write what it read.
C11_Witness ==
    /\ Was("task", "PUT") /\ resp.code = 200
    /\ \E slot \in DOMAIN inflight :
          LET read == inflight[slot].current_task
          IN  /\ read.taskId = resp.body.data.taskId
              /\ read.status # store[read.taskId].status
              /\ inflight[slot].body.data.status = read.status

\* The fields of a record an update leaves alone.
CreationFields ==
    {"taskId", "assignedTo", "deadline", "description", "createdBy", "createdAt"}

\* C12: no step of any invocation, in any interleaving, removes a record
\* from the table or changes a record's taskId, assignedTo, deadline,
\* description, createdBy or createdAt (status and updatedAt alone change,
\* and no field is added or dropped); a record a step adds has status
\* "New", also when the request body carries a status.
C12_RecordsImmutable ==
    [][ /\ DOMAIN store \subseteq DOMAIN store'
        /\ \A t \in DOMAIN store :
              /\ DOMAIN store'[t] = DOMAIN store[t]
              /\ \A f \in CreationFields : store'[t][f] = store[t][f]
        /\ \A t \in DOMAIN store' \ DOMAIN store : store'[t].status = "New"
      ]_vars

\* A create whose body asked for status "Completed" stored its record as
\* "New", next to a record an update has completed.
C12_Witness ==
    /\ Was("task", "POST") /\ resp.code = 201
    /\ Get(resp.body.data, "status") = "Completed"
    /\ \A it \in resp.out :
          /\ it.taskId \in DOMAIN store /\ store[it.taskId] = it
          /\ it.status = "New"
    /\ \E t \in DOMAIN store :
          /\ store[t].status = "Completed"
          /\ store[t].createdBy = "alice" /\ store[t].assignedTo = "s-bob"
          /\ store[t].deadline = Iso(1) /\ store[t].createdAt = Iso(0)

\* C13: POST /tasks by an admin naming an assignee is answered with a
\* status among 201, 400, 403, 404 and 500; when the body lacks deadline
\* or description the answer is one of the failure codes 400, 403, 404
\* and 500, and no record is created.
C13_CreateResponseCodes ==
    [][ ( resp'.n # resp.n /\ AdminCreate(resp') )
        => /\ resp'.code \in {201, 400, 403, 404, 500}
           /\ ~({"deadline", "description"} \subseteq DOMAIN resp'.body.data)
              => /\ resp'.code \in {400, 403, 404, 500}
                 /\ store' = store
      ]_vars

\* C14: every response the task handler or the user handler returns, for
\* every method and outcome, carries the three cross-origin headers
\* Access-Control-Allow-Origin, Access-Control-Allow-Headers and
\* Access-Control-Allow-Methods; a preflight is answered 200 whatever the
\* claims, also with none attached.
C14_CorsHeaders ==
    /\ ( resp.handler \in {"task", "user"} /\ resp.code # Raised )
       => resp.headers = { "Access-Control-Allow-Origin",
                           "Access-Control-Allow-Headers",
                           "Access-Control-Allow-Methods" }
    /\ ( resp.handler \in {"task", "user"} /\ resp.method = "OPTIONS" )
       => resp.code = 200 /\ resp.calls = <<>>

\* C15: the scanner keeps no memory between runs: a run that follows
\* another run (the table and the topic answering) alerts every stored
\* record that is not Completed and whose deadline lies within the hour
\* after this run, also those the earlier run alerted, and alerts no
\* record that is Completed or whose deadline is more than an hour ahead.
C15_ScannerNoMemory ==
    [][ ( /\ Was("deadline", "") /\ Ends("deadline", "")
          /\ resp'.env.scan = "ok" /\ resp'.env.publish = "ok" )
        => \A k \in DOMAIN store :
              /\ ( /\ store[k].status # "Completed"
                   /\ StrLeq(Iso(now'), store[k].deadline)
                   /\ StrLeq(store[k].deadline, Iso(now' + 1)) )
                 => store[k] \in resp'.out
              /\ ( \/ store[k].status = "Completed"
                   \/ ~StrLeq(store[k].deadline, Iso(now' + 1)) )
                 => store[k] \notin resp'.out
      ]_vars

\* C16: a POST /users answered 400, 403 or 500 leaves the directory as it
\* was, and every identity the directory gains is in the member group.
C16_UserCreateAtomic ==
    [][ /\ ( Ends("user", "POST") /\ resp'.code \in {400, 403, 500} )
           => directory' = directory
        /\ \A u \in directory' \ directory :
              (\A v \in directory : v.username # u.username)
              => "member" \in u.groups
      ]_vars

\* C17: in every interleaving of updates of one task, a rewrite that
\* changes the stored status calls the status notification once, with the
\* stored status before the write as old and the written one as new, and a
\* rewrite that leaves the stored status equal calls none.
C17_NotificationConsistent ==
    [][ \A slot \in Slots :
          Writes(slot) /\ resp'.code = 200
          => LET id == inflight[slot].current_task.taskId
                 before == store[id].status
                 after == store'[id].status
             IN  IF after # before
                 THEN /\ Len(resp'.helpers) = 1
                      /\ resp'.helpers[1].fn = "send_status_update_notification"
                      /\ resp'.helpers[1].old = before
                      /\ resp'.helpers[1].new = after
                 ELSE resp'.helpers = <<>>
      ]_vars

====
